---- MODULE Spec2Model ----
(***************************************************************************)
(* Model of the YieldBasis pool cap monitor (src/main.go): loadConfig,     *)
(* the two Telegram notification builders, monitorEvents and the retry     *)
(* loop of main.                                                           *)
(*                                                                         *)
(* Strings the code inspects character by character (POOL_ADDRESSES, the   *)
(* chat id, hex renderings) are sequences of one-character strings.        *)
(* Strings the code only stores, compares with "" or interpolates are      *)
(* TLA+ strings.  A common.Address is the sequence of its 40 lower-case    *)
(* hex digits.  A *big.Int is [neg, abs] with abs a little-endian sequence *)
(* of limbs without leading zero limbs, as in math/big.                    *)
(***************************************************************************)
EXTENDS Integers, Sequences, FiniteSets, TLC

VARIABLES
    env,        \* process environment read by loadConfig
    addrList,   \* the elements POOL_ADDRESSES was written from (input only)
    pc,         \* position of the single flow of control
    config,     \* *Config returned by loadConfig (Nil before / on error)
    cfgErr,     \* error returned by loadConfig
    calls,      \* invocations of monitorEvents so far
    returns,    \* returns of monitorEvents so far
    pauses,     \* completed time.Sleep calls of main
    sleptSecs,  \* total seconds slept by main
    cfgArg,     \* the *Config the running monitorEvents was called with
    conns,      \* open node connections (ethclient clients not yet closed)
    subs,       \* open log subscriptions (not yet unsubscribed)
    defers,     \* deferred calls of the running monitorEvents, in push order
    lastErr,    \* error of the last return of monitorEvents
    received,   \* log entries taken from the logs channel in this run
    inflight,   \* entries taken from the channel and not yet handled
    attempts,   \* bot.Send calls of this run: [entry, kind, ok]
    lastMsg,    \* the last message handed to bot.Send
    logged,     \* result line logged for the last handled entry
    unpacked    \* result of UnpackIntoInterface for the last handled entry

vars == <<env, addrList, pc, config, cfgErr, calls, returns, pauses, sleptSecs,
          cfgArg, conns, subs, defers, lastErr, received, inflight, attempts,
          lastMsg, logged, unpacked>>

Nil == "nil"                    \* a nil error
NilConfig == [nil |-> TRUE]     \* a nil *Config
NoMsg == [kind |-> "none"]      \* nothing handed to bot.Send yet
NoUnpack == [none |-> TRUE]     \* UnpackIntoInterface not called

(***************************************************************************)
(* Bounds                                                                  *)
(***************************************************************************)
MaxPools == 2       \* longest POOL_ADDRESSES list drawn
MaxCalls == 2       \* invocations of monitorEvents explored
MaxEntries == 2     \* log entries delivered per run
MaxLimbs == 2       \* limbs of the drawn allocation amounts

(***************************************************************************)
(* Characters and strings                                                  *)
(***************************************************************************)
HexDigits == {"0","1","2","3","4","5","6","7","8","9",
              "a","b","c","d","e","f","A","B","C","D","E","F"}

DecDigits == <<"0","1","2","3","4","5","6","7","8","9">>

WhiteSpace == {" ", "\t"}

\* strings.ToLower on one character
LowerChar(c) ==
    CASE c = "A" -> "a" [] c = "B" -> "b" [] c = "C" -> "c" [] c = "D" -> "d"
      [] c = "E" -> "e" [] c = "F" -> "f" [] c = "X" -> "x" [] c = "Z" -> "z"
      [] OTHER -> c

ToLower(s) == [i \in 1..Len(s) |-> LowerChar(s[i])]

HasPrefix(s, p) == Len(s) >= Len(p) /\ SubSeq(s, 1, Len(p)) = p

RECURSIVE TrimLeft(_)
TrimLeft(s) == IF s # <<>> /\ Head(s) \in WhiteSpace THEN TrimLeft(Tail(s)) ELSE s

RECURSIVE TrimRight(_)
TrimRight(s) ==
    IF s # <<>> /\ s[Len(s)] \in WhiteSpace THEN TrimRight(SubSeq(s, 1, Len(s) - 1)) ELSE s

TrimSpace(s) == TrimRight(TrimLeft(s))

\* strings.Split(s, ","): the pieces between separators, empty pieces kept
Split(s) ==
    LET seps == {i \in 1..Len(s) : s[i] = ","}
        \* position of the k-th separator; 0 and Len(s) + 1 bound the string
        sep(k) == IF k = 0 THEN 0
                  ELSE IF k > Cardinality(seps) THEN Len(s) + 1
                  ELSE CHOOSE i \in seps : Cardinality({j \in seps : j < i}) = k - 1
    IN  [k \in 1..(Cardinality(seps) + 1) |-> SubSeq(s, sep(k - 1) + 1, sep(k) - 1)]

(***************************************************************************)
(* Addresses                                                               *)
(***************************************************************************)
AddressLength == 20

has0xPrefix(s) == Len(s) >= 2 /\ s[1] = "0" /\ s[2] \in {"x", "X"}

isHex(s) == Len(s) % 2 = 0 /\ \A i \in 1..Len(s) : s[i] \in HexDigits

Strip0x(s) == IF has0xPrefix(s) THEN SubSeq(s, 3, Len(s)) ELSE s

IsHexAddress(s) == Len(Strip0x(s)) = 2 * AddressLength /\ isHex(Strip0x(s))

\* common.HexToAddress of a string IsHexAddress accepted: its 20 bytes
HexToAddress(s) == ToLower(Strip0x(s))

Pfx == <<"0","x">>

WBTCHex == <<"6","0","9","5","a","2","2","0","C","5","5","6","7","3","6","0","d","4","5","9","4","6","2","A","2","5","b","1","A","D","5","a","E","A","D","4","5","2","0","4">>
TBTCHex == <<"2","B","5","1","3","e","B","e","7","0","7","0","C","f","f","9","1","c","f","6","9","9","a","0","B","F","e","5","0","7","5","0","2","0","C","7","3","2","F","F">>
CBBTCHex == <<"D","6","a","1","1","4","7","6","6","6","f","6","E","4","d","7","1","6","1","c","a","f","4","3","6","d","9","9","2","3","D","4","4","d","9","0","1","1","1","2">>
AmmKeyHex == <<"a","5","b","f","b","6","1","a","f","1","4","a","f","e","7","b","8","1","c","a","c","7","f","a","4","f","7","c","4","4","8","3","d","e","d","c","3","6","d","f">>
AmmKeyChecksum == <<"a","5","b","f","B","6","1","A","f","1","4","a","F","e","7","B","8","1","c","A","C","7","F","a","4","f","7","c","4","4","8","3","d","E","D","c","3","6","d","F">>

WBTCAddr == ToLower(WBTCHex)
TBTCAddr == ToLower(TBTCHex)
CBBTCAddr == ToLower(CBBTCHex)
AmmKeyAddr == AmmKeyHex

\* the default value of POOL_ADDRESSES
DefaultPoolAddresses ==
    Pfx \o WBTCHex \o <<",">> \o Pfx \o TBTCHex \o <<",">> \o Pfx \o CBBTCHex

\* poolTokenMap[key], "" when the key is absent
poolTokenMap(key) ==
    CASE key = Pfx \o WBTCAddr -> "WBTC"
      [] key = Pfx \o TBTCAddr -> "TBTC"
      [] key = Pfx \o CBBTCAddr -> "CBBTC"
      [] OTHER -> ""

\* poolYBURLMap with the first entry keyed by the WBTC pool address
poolYBURLMapByPool(key) ==
    CASE key = Pfx \o WBTCAddr -> "https://yieldbasis.com/market/0x6095a220C5567360d459462A25b1AD5aEAD45204"
      [] key = Pfx \o TBTCAddr -> "https://yieldbasis.com/market/0x2B513eBe7070Cff91cf699a0BFe5075020C732FF"
      [] key = Pfx \o CBBTCAddr -> "https://yieldbasis.com/market/0xD6a1147666f6E4d7161caf436d9923D44d901112"
      [] OTHER -> ""

\* poolYBURLMap[key], "" when the key is absent
poolYBURLMap(key) ==
    CASE key = Pfx \o AmmKeyAddr -> "https://yieldbasis.com/market/0x6095a220C5567360d459462A25b1AD5aEAD45204"
      [] key = Pfx \o TBTCAddr -> "https://yieldbasis.com/market/0x2B513eBe7070Cff91cf699a0BFe5075020C732FF"
      [] key = Pfx \o CBBTCAddr -> "https://yieldbasis.com/market/0xD6a1147666f6E4d7161caf436d9923D44d901112"
      [] OTHER -> ""

\* Address.Hex(): "0x" and the 40 digits in EIP-55 checksum case
Hex(a) ==
    CASE a = WBTCAddr -> Pfx \o WBTCHex
      [] a = TBTCAddr -> Pfx \o TBTCHex
      [] a = CBBTCAddr -> Pfx \o CBBTCHex
      [] a = AmmKeyAddr -> Pfx \o AmmKeyChecksum
      [] OTHER -> Pfx \o a

(***************************************************************************)
(* loadConfig                                                              *)
(***************************************************************************)
PoolInfoOf(addr) ==
    [Address |-> HexToAddress(addr),
     TokenName |-> IF poolTokenMap(ToLower(addr)) = "" THEN "UNKNOWN"
                   ELSE poolTokenMap(ToLower(addr)),
     YBURL |-> IF poolYBURLMap(ToLower(addr)) = "" THEN "https://yieldbasis.com"
               ELSE poolYBURLMap(ToLower(addr))]

\* ParsePools that puts each pool in front of the ones before it
RECURSIVE ParsePoolsPrepend(_, _, _)
ParsePoolsPrepend(addressList, i, pools) ==
    IF i > Len(addressList) THEN [err |-> Nil, pools |-> pools]
    ELSE IF ~IsHexAddress(TrimSpace(addressList[i]))
         THEN [err |-> "invalid pool address", pools |-> pools]
         ELSE ParsePoolsPrepend(addressList, i + 1,
                                <<PoolInfoOf(TrimSpace(addressList[i]))>> \o pools)

\* ParsePools that skips an element that is not a hex address
RECURSIVE ParsePoolsSkipInvalid(_, _, _)
ParsePoolsSkipInvalid(addressList, i, pools) ==
    IF i > Len(addressList) THEN [err |-> Nil, pools |-> pools]
    ELSE IF ~IsHexAddress(TrimSpace(addressList[i]))
         THEN ParsePoolsSkipInvalid(addressList, i + 1, pools)
         ELSE ParsePoolsSkipInvalid(addressList, i + 1,
                                    Append(pools, PoolInfoOf(TrimSpace(addressList[i]))))

\* the loop over addressList: the pools appended so far, or the error of the
\* first element that is not a hex address
RECURSIVE ParsePools(_, _, _)
ParsePools(addressList, i, pools) ==
    IF i > Len(addressList) THEN [err |-> Nil, pools |-> pools]
    ELSE IF ~IsHexAddress(TrimSpace(addressList[i]))
         THEN [err |-> "invalid pool address", pools |-> pools]
         ELSE ParsePools(addressList, i + 1,
                         Append(pools, PoolInfoOf(TrimSpace(addressList[i]))))

\* loadConfig as a function of the environment: [config, err]
loadConfigOf(e) ==
    IF e.INFURA_WS_URL = "" THEN [config |-> NilConfig, err |-> "INFURA_WS_URL is required"]
    ELSE IF e.TELEGRAM_BOT_TOKEN = "" THEN [config |-> NilConfig, err |-> "TELEGRAM_BOT_TOKEN is required"]
    ELSE IF e.TELEGRAM_CHAT_ID = <<>> THEN [config |-> NilConfig, err |-> "TELEGRAM_CHAT_ID is required"]
    ELSE LET poolAddresses == IF e.POOL_ADDRESSES = <<>> THEN DefaultPoolAddresses
                              ELSE e.POOL_ADDRESSES
             parsed == ParsePools(Split(poolAddresses), 1, <<>>)
         IN  IF parsed.err # Nil THEN [config |-> NilConfig, err |-> parsed.err]
             ELSE IF Len(parsed.pools) = 0
                  THEN [config |-> NilConfig, err |-> "no valid pool addresses found"]
                  ELSE [config |-> [InfuraWsURL |-> e.INFURA_WS_URL,
                                    TelegramToken |-> e.TELEGRAM_BOT_TOKEN,
                                    TelegramChatID |-> e.TELEGRAM_CHAT_ID,
                                    Pools |-> parsed.pools],
                        err |-> Nil]

(***************************************************************************)
(* math/big integers                                                       *)
(***************************************************************************)
Base == 1000000000      \* limb radix of the model; 10^18 is Base^2

RECURSIVE NatNorm(_)
NatNorm(a) == IF a # <<>> /\ a[Len(a)] = 0 THEN NatNorm(SubSeq(a, 1, Len(a) - 1)) ELSE a

\* nat.cmp: -1, 0 or 1
RECURSIVE NatCmpFrom(_, _, _)
NatCmpFrom(a, b, i) ==
    IF i = 0 THEN 0
    ELSE IF a[i] # b[i] THEN (IF a[i] < b[i] THEN -1 ELSE 1)
    ELSE NatCmpFrom(a, b, i - 1)

NatCmp(a, b) ==
    IF Len(a) # Len(b) THEN (IF Len(a) < Len(b) THEN -1 ELSE 1)
    ELSE NatCmpFrom(a, b, Len(a))

Limb(a, i) == IF i <= Len(a) THEN a[i] ELSE 0

\* nat.add
RECURSIVE NatAddFrom(_, _, _, _)
NatAddFrom(a, b, i, carry) ==
    IF i > Len(a) /\ i > Len(b) THEN (IF carry = 0 THEN <<>> ELSE <<carry>>)
    ELSE LET t == Limb(a, i) + Limb(b, i) + carry
         IN  <<t % Base>> \o NatAddFrom(a, b, i + 1, t \div Base)

NatAdd(a, b) == NatNorm(NatAddFrom(a, b, 1, 0))

\* nat.sub, for a >= b
RECURSIVE NatSubFrom(_, _, _, _)
NatSubFrom(a, b, i, borrow) ==
    IF i > Len(a) THEN <<>>
    ELSE LET t == a[i] - Limb(b, i) - borrow
         IN  <<IF t < 0 THEN t + Base ELSE t>>
             \o NatSubFrom(a, b, i + 1, IF t < 0 THEN 1 ELSE 0)

NatSub(a, b) == NatNorm(NatSubFrom(a, b, 1, 0))

\* (*Int).Sub
BigSub(x, y) ==
    IF x.neg # y.neg
    THEN LET abs == NatAdd(x.abs, y.abs) IN [neg |-> abs # <<>> /\ x.neg, abs |-> abs]
    ELSE IF NatCmp(x.abs, y.abs) >= 0
         THEN LET abs == NatSub(x.abs, y.abs) IN [neg |-> abs # <<>> /\ x.neg, abs |-> abs]
         ELSE LET abs == NatSub(y.abs, x.abs) IN [neg |-> abs # <<>> /\ ~x.neg, abs |-> abs]

\* (*Int).Abs
BigAbs(x) == [neg |-> FALSE, abs |-> x.abs]

\* (*Int).Sign
BigSign(x) == IF x.abs = <<>> THEN 0 ELSE IF x.neg THEN -1 ELSE 1

\* "%.2f" of x / 1e18 for x >= 0: the whole stablecoins and the hundredths,
\* rounded to the nearest hundredth
Format2f(x) ==
    LET whole == IF Len(x.abs) > 2 THEN SubSeq(x.abs, 3, Len(x.abs)) ELSE <<>>
        hi == Limb(x.abs, 2)
        cents == hi \div 10000000
        up == (hi % 10000000) >= 5000000
    IN  IF up /\ cents = 99 THEN [whole |-> NatAdd(whole, <<1>>), cents |-> 0]
        ELSE [whole |-> whole, cents |-> IF up THEN cents + 1 ELSE cents]

(***************************************************************************)
(* strconv.ParseInt(s, 10, 64)                                             *)
(***************************************************************************)
IsDecDigit(c) == \E i \in 1..10 : DecDigits[i] = c

DigitVal(c) == CHOOSE i \in 0..9 : DecDigits[i + 1] = c

RECURSIVE StripZeros(_)
StripZeros(d) == IF d # <<>> /\ Head(d) = "0" THEN StripZeros(Tail(d)) ELSE d

\* comparison of two decimal magnitudes without leading zeros
RECURSIVE DecCmpFrom(_, _, _)
DecCmpFrom(a, b, i) ==
    IF i > Len(a) THEN 0
    ELSE IF a[i] # b[i] THEN (IF DigitVal(a[i]) < DigitVal(b[i]) THEN -1 ELSE 1)
    ELSE DecCmpFrom(a, b, i + 1)

DecCmp(a, b) ==
    IF Len(a) # Len(b) THEN (IF Len(a) < Len(b) THEN -1 ELSE 1)
    ELSE DecCmpFrom(a, b, 1)

\* 1 << 63
Cutoff64 == <<"9","2","2","3","3","7","2","0","3","6","8","5","4","7","7","5","8","0","8">>

\* an int64: sign and decimal magnitude without leading zeros (0 is <<>>)
Int64Zero == [neg |-> FALSE, mag |-> <<>>]

ParseInt(s) ==
    LET signed == s # <<>> /\ Head(s) \in {"+", "-"}
        neg == s # <<>> /\ Head(s) = "-"
        digits == IF signed THEN Tail(s) ELSE s
        mag == StripZeros(digits)
    IN  IF digits = <<>> \/ \E i \in 1..Len(digits) : ~IsDecDigit(digits[i])
        THEN [ok |-> FALSE, val |-> Int64Zero]
        ELSE IF (~neg /\ DecCmp(mag, Cutoff64) >= 0) \/ (neg /\ DecCmp(mag, Cutoff64) > 0)
             THEN [ok |-> FALSE, val |-> Int64Zero]
             ELSE [ok |-> TRUE, val |-> [neg |-> neg /\ mag # <<>>, mag |-> mag]]

(***************************************************************************)
(* Notification builders                                                   *)
(***************************************************************************)
\* tgbotapi.NewMessageToChannel(username, text) with the two fields set after it
NewMessageToChannel(username, text) ==
    [ChatID |-> Int64Zero, ChannelUsername |-> username, Text |-> text,
     ParseMode |-> "Markdown", DisableWebPagePreview |-> TRUE]

\* Addressed without the "@" added in front of the chat id
AddressedAsGiven(chatID, text) ==
    LET msg == NewMessageToChannel(chatID, text)
    IN  IF ~HasPrefix(chatID, <<"@">>) /\ ParseInt(chatID).ok
        THEN [msg EXCEPT !.ChatID = ParseInt(chatID).val]
        ELSE msg

\* the destination part shared by both builders
Addressed(chatID, text) ==
    LET msg == NewMessageToChannel(<<"@">> \o chatID, text)
    IN  IF ~HasPrefix(chatID, <<"@">>) /\ ParseInt(chatID).ok
        THEN [msg EXCEPT !.ChatID = ParseInt(chatID).val]
        ELSE msg

\* changeText of sendTelegramNotification; difference.Abs(difference) has
\* replaced difference by its absolute value before Sign is read
changeTextOf(event) ==
    LET difference0 == BigSub(event.StablecoinAllocated, event.StablecoinAllocation)
        difference == BigAbs(difference0)
        diffFloat == Format2f(difference)
    IN  IF BigSign(difference) > 0 THEN <<"+", diffFloat, " increase">>
        ELSE IF BigSign(difference) < 0 THEN <<"-", diffFloat, " decrease">>
        ELSE <<"No change">>

\* the message sendTelegramNotification hands to bot.Send
standardMessage(chatID, event, txHash) ==
    Addressed(chatID,
        [kind |-> "standard", TokenName |-> event.TokenName, YBURL |-> event.YBURL,
         Allocation |-> Format2f(event.StablecoinAllocation),
         Allocated |-> Format2f(event.StablecoinAllocated),
         Change |-> changeTextOf(event), TxHash |-> txHash])

HexChars == <<"0","1","2","3","4","5","6","7","8","9","a","b","c","d","e","f">>

\* fmt.Sprintf("0x%x", rawData)
RECURSIVE HexOfBytes(_)
HexOfBytes(data) ==
    IF data = <<>> THEN <<>>
    ELSE <<HexChars[(Head(data) \div 16) + 1], HexChars[(Head(data) % 16) + 1]>>
         \o HexOfBytes(Tail(data))

\* unparsedMessage with the pool address written in full
unparsedMessageFullAddress(chatID, eventType, tokenName, poolAddress, txHash, rawData) ==
    Addressed(chatID,
        [kind |-> "unparsed", TokenName |-> tokenName, EventType |-> eventType,
         Address |-> Hex(poolAddress),
         RawData |-> Pfx \o HexOfBytes(rawData), TxHash |-> txHash])

\* the message sendUnparsedEventNotification hands to bot.Send
unparsedMessage(chatID, eventType, tokenName, poolAddress, txHash, rawData) ==
    Addressed(chatID,
        [kind |-> "unparsed", TokenName |-> tokenName, EventType |-> eventType,
         Address |-> SubSeq(Hex(poolAddress), 1, 10) \o <<".", ".", ".">>,
         RawData |-> Pfx \o HexOfBytes(rawData), TxHash |-> txHash])

(***************************************************************************)
(* Inputs                                                                  *)
(***************************************************************************)
\* elements POOL_ADDRESSES is written from: the text, whether it is a
\* well-formed 20-byte hex address after trimming, and the address it names
Elements ==
    { [text |-> Pfx \o WBTCHex, valid |-> TRUE, addr |-> WBTCAddr],
      [text |-> <<" ">> \o Pfx \o TBTCHex \o <<" ">>, valid |-> TRUE, addr |-> TBTCAddr],
      [text |-> ToLower(CBBTCHex), valid |-> TRUE, addr |-> CBBTCAddr],
      [text |-> <<"0","X">> \o AmmKeyHex, valid |-> TRUE, addr |-> AmmKeyAddr],
      [text |-> <<>>, valid |-> FALSE, addr |-> <<>>],
      [text |-> Pfx \o SubSeq(WBTCHex, 1, 8), valid |-> FALSE, addr |-> <<>>],
      [text |-> Pfx \o <<"g">> \o Tail(WBTCHex), valid |-> FALSE, addr |-> <<>>],
      [text |-> <<" ">>, valid |-> FALSE, addr |-> <<>>] }

ElementLists == UNION { [1..k -> Elements] : k \in 0..MaxPools }

RECURSIVE Join(_)
Join(l) ==
    IF l = <<>> THEN <<>>
    ELSE IF Len(l) = 1 THEN l[1].text
    ELSE l[1].text \o <<",">> \o Join(Tail(l))

EnvOf(url, token, chat, l) ==
    [INFURA_WS_URL |-> url, TELEGRAM_BOT_TOKEN |-> token, TELEGRAM_CHAT_ID |-> chat,
     POOL_ADDRESSES |-> Join(l)]

ChannelDest == <<"@","m","y","c","h","a","n","n","e","l">>
NumericDest == <<"1","2","3","4","5","6","7","8","9">>
LiteralDest == <<"n","o","t","_","a","_","n","u","m","b","e","r">>
MaxInt64Dest == <<"9","2","2","3","3","7","2","0","3","6","8","5","4","7","7","5","8","0","7">>

Destinations ==
    { ChannelDest, NumericDest, LiteralDest, MaxInt64Dest, Cutoff64,
      <<"-">> \o Cutoff64, <<"-","1","0","0","1","2","3">>, <<"+","0","7">>,
      <<"@">>, <<"1","2","a">>, <<"-">>, <<"0">> }

LimbVals == {0, 1, Base - 1}

NatVals == { a \in UNION { [1..k -> LimbVals] : k \in 0..MaxLimbs } : NatNorm(a) = a }

\* 200000000000000000000000000, the allocation of the recorded test event
TestAllocation == [neg |-> FALSE, abs |-> <<0, 0, 200000000>>]

BigVals == { [neg |-> FALSE, abs |-> a] : a \in NatVals } \cup {TestAllocation}


\* crypto.Keccak256Hash("AllocateStablecoins(address,uint256,uint256)")
allocateHash == "6f16a992fba7b966942bb6064775e154f99de09fce962940d4e284c5c9132868"
OtherHash == "ddf252ad1be2c89b69c2b068fc378daa952ba7f163c4a11628f55a4df523b3ef"
AllocatorTopic == "000000000000000000000000370a449fe8b9411c95bf897021377fe007d100c0"

TopicLists == { <<>>, <<allocateHash, AllocatorTopic>>, <<OtherHash, AllocatorTopic>> }

DataVals == { <<>>, <<0, 255, 16>> }

TxHashes == { "0xa1b2" }

\* the log entries the subscription of a run can deliver: the filter passes
\* only the configured pool addresses
Entries(cfg) ==
    { [Address |-> cfg.Pools[i].Address, Topics |-> t, Data |-> d, TxHash |-> h] :
        i \in 1..Len(cfg.Pools), t \in TopicLists, d \in DataVals, h \in TxHashes }

UnpackError == [err |-> TRUE]

Unpacked(allocation, allocated) ==
    [err |-> FALSE, StablecoinAllocation |-> allocation, StablecoinAllocated |-> allocated]

Big(n) == [neg |-> FALSE, abs |-> IF n = 0 THEN <<>> ELSE <<n>>]

\* results of contractABI.UnpackIntoInterface explored by the monitor
UnpackOutcomes ==
    { UnpackError, Unpacked(TestAllocation, Big(0)), Unpacked(Big(0), Big(1)),
      Unpacked(Big(1), Big(1)) }

\* results explored for the notification builders alone
AllUnpackOutcomes ==
    {UnpackError} \cup { Unpacked(a, b) : a \in BigVals, b \in BigVals }

(***************************************************************************)
(* main and monitorEvents                                                  *)
(***************************************************************************)
RetryDelay == 10

InMonitor == {"dial", "loadABI", "newBot", "subscribe", "subscribed", "handling"}

InitOf(inputs) ==
    /\ \E in \in inputs :
          /\ env = EnvOf(in.url, in.token, in.chat, in.list)
          /\ addrList = in.list
    /\ pc = "start"
    /\ config = NilConfig
    /\ cfgErr = Nil
    /\ calls = 0
    /\ returns = 0
    /\ pauses = 0
    /\ sleptSecs = 0
    /\ cfgArg = NilConfig
    /\ conns = 0
    /\ subs = 0
    /\ defers = <<>>
    /\ lastErr = Nil
    /\ received = 0
    /\ inflight = <<>>
    /\ attempts = <<>>
    /\ lastMsg = NoMsg
    /\ logged = ""
    /\ unpacked = NoUnpack

NodeURL == "wss://mainnet.infura.io/ws/v3/KEY"
BotToken == "123:ABC"

\* environments of the monitor runs
MonitorInputs ==
    { [url |-> NodeURL, token |-> BotToken, chat |-> ChannelDest, list |-> <<>>],
      [url |-> NodeURL, token |-> BotToken, chat |-> NumericDest,
       list |-> <<CHOOSE e \in Elements : e.addr = AmmKeyAddr>>],
      [url |-> NodeURL, token |-> "", chat |-> ChannelDest, list |-> <<>>] }

\* environments of loadConfig alone
ConfigInputs ==
    { [url |-> u, token |-> t, chat |-> c, list |-> l] :
        u \in {"", NodeURL}, t \in {"", BotToken}, c \in {<<>>, ChannelDest},
        l \in ElementLists }

Init == InitOf(MonitorInputs)

\* main: config, err := loadConfig(); log.Fatalf on error
LoadConfig ==
    /\ pc = "start"
    /\ config' = loadConfigOf(env).config
    /\ cfgErr' = loadConfigOf(env).err
    /\ pc' = IF loadConfigOf(env).err # Nil THEN "exited" ELSE "supervise"
    /\ UNCHANGED <<env, addrList, calls, returns, pauses, sleptSecs, cfgArg, conns,
                   subs, defers, lastErr, received, inflight, attempts, lastMsg, logged, unpacked>>

\* main: the loop body calls monitorEvents(config)
Invoke ==
    /\ pc = "supervise"
    /\ calls < MaxCalls
    /\ calls' = calls + 1
    /\ cfgArg' = config
    /\ pc' = "dial"
    /\ received' = 0
    /\ inflight' = <<>>
    /\ attempts' = <<>>
    /\ lastMsg' = NoMsg
    /\ logged' = ""
    /\ unpacked' = NoUnpack
    /\ defers' = <<>>
    /\ UNCHANGED <<env, addrList, config, cfgErr, returns, pauses, sleptSecs, conns,
                   subs, lastErr>>

Count(s, x) == Cardinality({i \in 1..Len(s) : s[i] = x})

\* Return that leaves the node connection open
ReturnLeaky(e) ==
    /\ conns' = conns
    /\ subs' = subs - Count(defers, "sub.Unsubscribe")
    /\ defers' = <<>>
    /\ lastErr' = e
    /\ returns' = returns + 1
    /\ pc' = "returned"

\* return e from monitorEvents: the deferred calls run, control is back in main
Return(e) ==
    /\ conns' = conns - Count(defers, "client.Close")
    /\ subs' = subs - Count(defers, "sub.Unsubscribe")
    /\ defers' = <<>>
    /\ lastErr' = e
    /\ returns' = returns + 1
    /\ pc' = "returned"

\* ethclient.Dial and defer client.Close()
Dial ==
    /\ pc = "dial"
    /\ \E ok \in BOOLEAN :
          IF ok
          THEN /\ conns' = conns + 1
               /\ defers' = Append(defers, "client.Close")
               /\ pc' = "loadABI"
               /\ UNCHANGED <<subs, lastErr, returns>>
          ELSE Return("failed to connect to Ethereum client")
    /\ UNCHANGED <<env, addrList, config, cfgErr, calls, pauses, sleptSecs, cfgArg,
                   received, inflight, attempts, lastMsg, logged, unpacked>>

\* LoadABI that goes on to the subscription without creating the bot
LoadABISkipsBot ==
    /\ pc = "loadABI"
    /\ \E ok \in BOOLEAN :
          IF ok
          THEN /\ pc' = "subscribe"
               /\ UNCHANGED <<conns, subs, defers, lastErr, returns>>
          ELSE Return("failed to load ABI")
    /\ UNCHANGED <<env, addrList, config, cfgErr, calls, pauses, sleptSecs, cfgArg,
                   received, inflight, attempts, lastMsg, logged, unpacked>>
\* loadABI()
LoadABI ==
    /\ pc = "loadABI"
    /\ \E ok \in BOOLEAN :
          IF ok
          THEN /\ pc' = "newBot"
               /\ UNCHANGED <<conns, subs, defers, lastErr, returns>>
          ELSE Return("failed to load ABI")
    /\ UNCHANGED <<env, addrList, config, cfgErr, calls, pauses, sleptSecs, cfgArg,
                   received, inflight, attempts, lastMsg, logged, unpacked>>

\* tgbotapi.NewBotAPI(config.TelegramToken)
NewBot ==
    /\ pc = "newBot"
    /\ \E ok \in BOOLEAN :
          IF ok
          THEN /\ pc' = "subscribe"
               /\ UNCHANGED <<conns, subs, defers, lastErr, returns>>
          ELSE Return("failed to create Telegram bot")
    /\ UNCHANGED <<env, addrList, config, cfgErr, calls, pauses, sleptSecs, cfgArg,
                   received, inflight, attempts, lastMsg, logged, unpacked>>

\* client.SubscribeFilterLogs and defer sub.Unsubscribe()
Subscribe ==
    /\ pc = "subscribe"
    /\ \E ok \in BOOLEAN :
          IF ok
          THEN /\ subs' = subs + 1
               /\ defers' = Append(defers, "sub.Unsubscribe")
               /\ pc' = "subscribed"
               /\ UNCHANGED <<conns, lastErr, returns>>
          ELSE Return("failed to subscribe to logs")
    /\ UNCHANGED <<env, addrList, config, cfgErr, calls, pauses, sleptSecs, cfgArg,
                   received, inflight, attempts, lastMsg, logged, unpacked>>

\* select: case err := <-sub.Err()
SubErr ==
    /\ pc = "subscribed"
    /\ Return("subscription error")
    /\ UNCHANGED <<env, addrList, config, cfgErr, calls, pauses, sleptSecs, cfgArg,
                   received, inflight, attempts, lastMsg, logged, unpacked>>

\* Receive that takes the next entry while one is still being handled
ReceiveConcurrent ==
    /\ pc \in {"subscribed", "handling"}
    /\ received < MaxEntries
    /\ \E vLog \in Entries(cfgArg) :
          inflight' = Append(inflight, [idx |-> received + 1, log |-> vLog])
    /\ received' = received + 1
    /\ pc' = "handling"
    /\ UNCHANGED <<env, addrList, config, cfgErr, calls, returns, pauses, sleptSecs,
                   cfgArg, conns, subs, defers, lastErr, attempts, lastMsg, logged,
                   unpacked>>

\* select: case vLog := <-logs
Receive ==
    /\ pc = "subscribed"
    /\ received < MaxEntries
    /\ \E vLog \in Entries(cfgArg) :
          inflight' = Append(inflight, [idx |-> received + 1, log |-> vLog])
    /\ received' = received + 1
    /\ pc' = "handling"
    /\ UNCHANGED <<env, addrList, config, cfgErr, calls, returns, pauses, sleptSecs,
                   cfgArg, conns, subs, defers, lastErr, attempts, lastMsg, logged, unpacked>>

\* addressToToken[a] / addressToYBURL[a]: the entry of the last pool with
\* address a, "" when there is none
RECURSIVE LookupPool(_, _, _)
LookupPool(pools, a, field) ==
    IF pools = <<>> THEN ""
    ELSE IF pools[Len(pools)].Address = a THEN pools[Len(pools)][field]
    ELSE LookupPool(SubSeq(pools, 1, Len(pools) - 1), a, field)

\* eventTypeOf that takes any first topic for the AllocateStablecoins topic
eventTypeOfAnyTopic(vLog) ==
    IF Len(vLog.Topics) > 0 THEN "AllocateStablecoins" ELSE ""

\* eventType of a log entry
eventTypeOf(vLog) ==
    IF Len(vLog.Topics) > 0 /\ vLog.Topics[1] = allocateHash
    THEN "AllocateStablecoins" ELSE ""

\* the message built for an entry of type AllocateStablecoins, by the
\* result of UnpackIntoInterface
messageOf(cfg, vLog, out) ==
    LET tokenName == LookupPool(cfg.Pools, vLog.Address, "TokenName")
        ybURL == LookupPool(cfg.Pools, vLog.Address, "YBURL")
    IN  IF out.err
        THEN unparsedMessage(cfg.TelegramChatID, eventTypeOf(vLog), tokenName,
                             vLog.Address, vLog.TxHash, vLog.Data)
        ELSE standardMessage(cfg.TelegramChatID,
                 [StablecoinAllocation |-> out.StablecoinAllocation,
                  StablecoinAllocated |-> out.StablecoinAllocated,
                  PoolAddress |-> vLog.Address, TokenName |-> tokenName,
                  YBURL |-> ybURL],
                 vLog.TxHash)

\* SendResult that returns the send error from monitorEvents
SendResultReturning(sendOk) ==
    /\ logged' = IF sendOk THEN "sent" ELSE "failed"
    /\ IF sendOk
       THEN /\ pc' = "subscribed"
            /\ UNCHANGED <<returns, conns, subs, defers, lastErr>>
       ELSE Return("failed to send Telegram notification")

\* "Always report the result": the send result is logged and the loop goes on
SendResult(sendOk) ==
    /\ logged' = IF sendOk THEN "sent" ELSE "failed"
    /\ pc' = "subscribed"
    /\ UNCHANGED <<returns, conns, subs, defers, lastErr>>

\* the body of case vLog := <-logs, for the entry taken from the channel
HandleWith(outcomes) ==
    /\ pc = "handling"
    /\ LET e == Head(inflight) IN
          IF eventTypeOf(e.log) = "AllocateStablecoins"
          THEN \E out \in outcomes, sendOk \in BOOLEAN :
                  LET msg == messageOf(cfgArg, e.log, out) IN
                  /\ unpacked' = out
                  /\ lastMsg' = msg
                  /\ attempts' = Append(attempts,
                         [entry |-> e.idx, kind |-> msg.Text.kind, ok |-> sendOk])
                  /\ SendResult(sendOk)
          ELSE /\ logged' = ""
               /\ unpacked' = NoUnpack
               /\ pc' = "subscribed"
               /\ UNCHANGED <<lastMsg, attempts, returns, conns, subs, defers, lastErr>>
    /\ inflight' = Tail(inflight)
    /\ UNCHANGED <<env, addrList, config, cfgErr, calls, pauses, sleptSecs,
                   cfgArg, received>>

Handle == HandleWith(UnpackOutcomes)

\* Sleep with a delay that grows with every retry
SleepBackoff ==
    /\ pc = "returned"
    /\ sleptSecs' = sleptSecs + RetryDelay * (pauses + 1)
    /\ pauses' = pauses + 1
    /\ pc' = "supervise"
    /\ UNCHANGED <<env, addrList, config, cfgErr, calls, returns, cfgArg, conns, subs,
                   defers, lastErr, received, inflight, attempts, lastMsg, logged,
                   unpacked>>

\* main: log the error, time.Sleep(10 * time.Second), loop
Sleep ==
    /\ pc = "returned"
    /\ sleptSecs' = sleptSecs + RetryDelay
    /\ pauses' = pauses + 1
    /\ pc' = "supervise"
    /\ UNCHANGED <<env, addrList, config, cfgErr, calls, returns, cfgArg, conns, subs,
                   defers, lastErr, received, inflight, attempts, lastMsg, logged, unpacked>>

Next ==
    \/ LoadConfig
    \/ Invoke
    \/ Dial
    \/ LoadABI
    \/ NewBot
    \/ Subscribe
    \/ SubErr
    \/ Receive
    \/ Handle
    \/ Sleep

Spec == Init /\ [][Next]_vars

(***************************************************************************)
(* loadConfig alone, over the drawn environments                           *)
(***************************************************************************)
InitConfig == InitOf(ConfigInputs)

NextConfig == LoadConfig

SpecConfig == InitConfig /\ [][NextConfig]_vars

(***************************************************************************)
(* The notification builders alone: a subscribed run that has taken one    *)
(* AllocateStablecoins entry from the channel, over the drawn chat ids     *)
(* and decoded amounts                                                     *)
(***************************************************************************)
NotifyConfig(chat) ==
    [InfuraWsURL |-> NodeURL, TelegramToken |-> BotToken, TelegramChatID |-> chat,
     Pools |-> loadConfigOf(EnvOf(NodeURL, BotToken, chat, <<>>)).config.Pools]

InitNotify ==
    /\ \E chat \in Destinations :
          /\ env = EnvOf(NodeURL, BotToken, chat, <<>>)
          /\ config = NotifyConfig(chat)
          /\ cfgArg = NotifyConfig(chat)
          /\ \E vLog \in Entries(NotifyConfig(chat)) :
                /\ eventTypeOf(vLog) = "AllocateStablecoins"
                /\ inflight = <<[idx |-> 1, log |-> vLog]>>
    /\ addrList = <<>>
    /\ pc = "handling"
    /\ cfgErr = Nil
    /\ calls = 1
    /\ returns = 0
    /\ pauses = 0
    /\ sleptSecs = 0
    /\ conns = 1
    /\ subs = 1
    /\ defers = <<"client.Close", "sub.Unsubscribe">>
    /\ lastErr = Nil
    /\ received = 1
    /\ attempts = <<>>
    /\ lastMsg = NoMsg
    /\ logged = ""
    /\ unpacked = NoUnpack

HandleAny == HandleWith(AllUnpackOutcomes)

NextNotify == HandleAny

SpecNotify == InitNotify /\ [][NextNotify]_vars


(***************************************************************************)
(* Properties                                                              *)
(***************************************************************************)

\* C1: once loadConfig has succeeded, every return of monitorEvents is
\* followed by exactly one pause of 10 seconds and then exactly one new
\* invocation with the same Config; the delay never grows, nothing but the
\* failure of loadConfig ends the process, and after any number of failures
\* the pause and the next invocation can still be taken.
C1_SupervisorRetries ==
    /\ pc = "exited" => (cfgErr # Nil /\ calls = 0)
    /\ pc \notin {"start", "exited"} =>
          /\ config = loadConfigOf(env).config
          /\ config # NilConfig
          /\ sleptSecs = RetryDelay * pauses
          /\ RetryDelay = 10
          /\ pc \in InMonitor => (calls = returns + 1 /\ pauses = returns /\ cfgArg = config)
          /\ pc = "returned" => (calls = returns /\ pauses + 1 = returns /\ lastErr # Nil
                                 /\ ENABLED Sleep)
          /\ pc = "supervise" => (calls = returns /\ pauses = returns
                                  /\ (calls < MaxCalls => ENABLED Invoke))

\* a second invocation is running after one failure and one pause
C1_Witness ==
    pc = "dial" /\ calls = 2 /\ returns = 1 /\ pauses = 1 /\ sleptSecs = 10
    /\ lastErr = "subscription error" /\ cfgArg = config

Standard == lastMsg.Text.kind = "standard"

\* C2: in a standard notice the change text starts with "+" and says
\* "increase" when the allocated amount is above the prior allocation,
\* starts with "-" and says "decrease" when it is below, and is
\* "No change" when they are equal.
C2_ChangeLabel ==
    (lastMsg # NoMsg /\ Standard) =>
        LET cmp == NatCmp(unpacked.StablecoinAllocated.abs, unpacked.StablecoinAllocation.abs)
            change == lastMsg.Text.Change
        IN  /\ cmp > 0 => (Len(change) = 3 /\ change[1] = "+" /\ change[3] = " increase")
            /\ cmp < 0 => (Len(change) = 3 /\ change[1] = "-" /\ change[3] = " decrease")
            /\ cmp = 0 => change = <<"No change">>

\* C3: to a destination that begins with "@" both notices are addressed to
\* the channel handle equal to the destination as given, not to a numeric id.
C3_ChannelAsGiven ==
    (lastMsg # NoMsg /\ HasPrefix(cfgArg.TelegramChatID, <<"@">>)) =>
        /\ lastMsg.ChannelUsername = cfgArg.TelegramChatID
        /\ lastMsg.ChatID = Int64Zero

\* the drawn destinations that are base-10 signed 64-bit integers, with
\* their values
NumericDestinations ==
    { [text |-> NumericDest, val |-> [neg |-> FALSE, mag |-> NumericDest]],
      [text |-> MaxInt64Dest, val |-> [neg |-> FALSE, mag |-> MaxInt64Dest]],
      [text |-> <<"-">> \o Cutoff64, val |-> [neg |-> TRUE, mag |-> Cutoff64]],
      [text |-> <<"-","1","0","0","1","2","3">>,
       val |-> [neg |-> TRUE, mag |-> <<"1","0","0","1","2","3">>]],
      [text |-> <<"+","0","7">>, val |-> [neg |-> FALSE, mag |-> <<"7">>]],
      [text |-> <<"0">>, val |-> [neg |-> FALSE, mag |-> <<>>]] }

\* C4: to a destination that does not begin with "@", both notices carry the
\* numeric chat id when the destination is a base-10 signed 64-bit integer,
\* and otherwise carry no chat id and the channel handle "@" followed by the
\* destination.
C4_NumericOrFallback ==
    (lastMsg # NoMsg /\ ~HasPrefix(cfgArg.TelegramChatID, <<"@">>)) =>
        IF \E n \in NumericDestinations : n.text = cfgArg.TelegramChatID
        THEN \A n \in NumericDestinations :
                n.text = cfgArg.TelegramChatID => lastMsg.ChatID = n.val
        ELSE /\ lastMsg.ChatID = Int64Zero
             /\ lastMsg.ChannelUsername = <<"@">> \o cfgArg.TelegramChatID

\* an undecoded notice went to the literal destination as a channel handle
C4_Witness ==
    /\ cfgArg.TelegramChatID = LiteralDest
    /\ lastMsg # NoMsg
    /\ lastMsg.Text.kind = "unparsed"
    /\ lastMsg.ChannelUsername = <<"@">> \o LiteralDest
    /\ lastMsg.ChatID = Int64Zero


\* fmt.Sprintf("0x%x", d) of the drawn payloads
PayloadHex(d) ==
    IF d = <<>> THEN <<"0","x">> ELSE <<"0","x","0","0","f","f","1","0">>

\* the first 10 characters of the hex form of the pool addresses, and "..."
ShortAddress(a) ==
    CASE a = WBTCAddr -> <<"0","x","6","0","9","5","a","2","2","0",".",".",".">>
      [] a = TBTCAddr -> <<"0","x","2","B","5","1","3","e","B","e",".",".",".">>
      [] a = CBBTCAddr -> <<"0","x","D","6","a","1","1","4","7","6",".",".",".">>
      [] a = AmmKeyAddr -> <<"0","x","a","5","b","f","B","6","1","A",".",".",".">>

\* C5: handling an entry whose first topic is the AllocateStablecoins topic
\* and whose data fails to decode makes exactly one send, of the undecoded
\* notice with the payload as hex and the pool address cut to its first 10
\* characters and "...", and leaves monitorEvents subscribed.
C5_UndecodedNotice ==
    [][(pc = "handling" /\ eventTypeOf(Head(inflight).log) = "AllocateStablecoins"
        /\ unpacked' = UnpackError) =>
          /\ Len(attempts') = Len(attempts) + 1
          /\ attempts'[Len(attempts')].kind = "unparsed"
          /\ attempts'[Len(attempts')].entry = Head(inflight).idx
          /\ lastMsg'.Text.kind = "unparsed"
          /\ lastMsg'.Text.RawData = PayloadHex(Head(inflight).log.Data)
          /\ lastMsg'.Text.Address = ShortAddress(Head(inflight).log.Address)
          /\ pc' = "subscribed"
          /\ returns' = returns /\ subs' = subs /\ conns' = conns]_vars

\* an undecoded notice was sent and a further entry was taken afterwards
C5_Witness ==
    /\ pc = "handling"
    /\ received = 2
    /\ unpacked = UnpackError
    /\ Len(attempts) = 1
    /\ attempts[1].kind = "unparsed"
    /\ lastMsg.Text.RawData = <<"0","x","0","0","f","f","1","0">>
    /\ lastMsg.Text.Address = <<"0","x","6","0","9","5","a","2","2","0",".",".",".">>

\* C6: a failed send leaves monitorEvents subscribed with the entry dropped
\* and no further send for it, and the subscribed state is left only by an
\* error of the subscription.
C6_SendFailureKeepsLoop ==
    [][/\ (pc = "handling" /\ logged' = "failed") =>
            /\ pc' = "subscribed"
            /\ returns' = returns /\ subs' = subs /\ conns' = conns
            /\ Len(attempts') = Len(attempts) + 1
            /\ ~attempts'[Len(attempts')].ok
            /\ inflight' = Tail(inflight)
       /\ (pc \in {"subscribed", "handling"} /\ pc' \notin {"subscribed", "handling"}) =>
            /\ pc = "subscribed"
            /\ pc' = "returned"
            /\ lastErr' = "subscription error"]_vars

\* a send failed and the run went on to send for the next entry
C6_Witness ==
    /\ pc = "subscribed"
    /\ Len(attempts) = 2
    /\ ~attempts[1].ok
    /\ attempts[1].entry = 1
    /\ attempts[2].entry = 2
    /\ returns = 0

\* C7: with the three required values set, a POOL_ADDRESSES list of n >= 1
\* well-formed addresses gives exactly n pools, the i-th with the address of
\* the i-th element; an absent or empty POOL_ADDRESSES gives the three
\* built-in addresses in their order.
C7_PoolsFollowList ==
    (pc # "start" /\ env.INFURA_WS_URL # "" /\ env.TELEGRAM_BOT_TOKEN # ""
     /\ env.TELEGRAM_CHAT_ID # <<>>) =>
        /\ env.POOL_ADDRESSES = <<>> =>
              /\ cfgErr = Nil
              /\ config # NilConfig
              /\ [i \in 1..Len(config.Pools) |-> config.Pools[i].Address]
                    = <<WBTCAddr, TBTCAddr, CBBTCAddr>>
        /\ (Len(addrList) >= 1 /\ \A i \in 1..Len(addrList) : addrList[i].valid) =>
              /\ cfgErr = Nil
              /\ config # NilConfig
              /\ Len(config.Pools) = Len(addrList)
              /\ \A i \in 1..Len(addrList) : config.Pools[i].Address = addrList[i].addr

\* a list of two different addresses was loaded
C7_Witness ==
    /\ pc = "supervise"
    /\ Len(addrList) = 2
    /\ addrList[1].addr = TBTCAddr
    /\ addrList[2].addr = WBTCAddr
    /\ Len(config.Pools) = 2
    /\ config.Pools[1].Address = TBTCAddr

\* C8: loadConfig returns either an error and no Config, or no error and a
\* Config with node URL, token, destination and Pools all non-empty; it
\* returns an error when a required value is empty and when an element of
\* the address list is not a well-formed address.
C8_ConfigOrError ==
    pc # "start" =>
        /\ \/ (cfgErr # Nil /\ config = NilConfig)
           \/ /\ cfgErr = Nil
              /\ config # NilConfig
              /\ config.InfuraWsURL # ""
              /\ config.TelegramToken # ""
              /\ config.TelegramChatID # <<>>
              /\ Len(config.Pools) > 0
        /\ (env.INFURA_WS_URL = "" \/ env.TELEGRAM_BOT_TOKEN = ""
            \/ env.TELEGRAM_CHAT_ID = <<>>) => cfgErr # Nil
        /\ (env.POOL_ADDRESSES # <<>> /\ \E i \in 1..Len(addrList) : ~addrList[i].valid)
              => cfgErr # Nil

\* a list with a well-formed address followed by an empty element was refused
C8_Witness ==
    /\ pc = "exited"
    /\ cfgErr = "invalid pool address"
    /\ config = NilConfig
    /\ Len(addrList) = 2
    /\ addrList[1].valid
    /\ addrList[2].text = <<>>

\* C9: within a run at most one entry is in flight, an entry is handled
\* before the next one is taken, and the sends are made in arrival order,
\* at most one per entry.
C9_SerialInOrder ==
    /\ Len(inflight) <= 1
    /\ pc = "subscribed" => inflight = <<>>
    /\ pc = "handling" => (Len(inflight) = 1 /\ inflight[1].idx = received)
    /\ \A i \in 1..Len(attempts) :
          /\ attempts[i].entry <= received - Len(inflight)
          /\ \A j \in 1..Len(attempts) : i < j => attempts[i].entry < attempts[j].entry

\* two entries were delivered and a send was made for each, in order
C9_Witness ==
    /\ received = 2
    /\ inflight = <<>>
    /\ Len(attempts) = 2
    /\ attempts[1].entry = 1
    /\ attempts[2].entry = 2

\* C10: when monitorEvents is not running, no node connection and no log
\* subscription is open, whatever path it returned by; at any moment at
\* most one connection and one subscription are open.
C10_ResourcesReleased ==
    /\ pc \notin InMonitor => (conns = 0 /\ subs = 0 /\ defers = <<>>)
    /\ conns <= 1
    /\ subs <= 1
    /\ conns = Count(defers, "client.Close")
    /\ subs = Count(defers, "sub.Unsubscribe")

\* a restarted run is subscribed with one connection and one subscription
C10_Witness ==
    /\ calls = 2
    /\ returns = 1
    /\ pc = "subscribed"
    /\ conns = 1
    /\ subs = 1


Connecting == {"dial", "loadABI", "newBot", "subscribe"}
Subscribed == {"subscribed", "handling"}

\* C11: monitorEvents opens the node connection, loads the ABI, creates the
\* bot and opens the subscription in that order; a failing step returns its
\* own error at once; entries are received and notices sent only in the
\* subscribed state, which is entered only from the last start-up step and
\* left only by returning.
C11_StartupOrder ==
    [][/\ pc' = "dial" => pc = "supervise"
       /\ pc = "dial" =>
             \/ (pc' = "loadABI" /\ conns' = conns + 1)
             \/ (pc' = "returned" /\ lastErr' = "failed to connect to Ethereum client")
       /\ pc = "loadABI" =>
             \/ pc' = "newBot"
             \/ (pc' = "returned" /\ lastErr' = "failed to load ABI")
       /\ pc = "newBot" =>
             \/ pc' = "subscribe"
             \/ (pc' = "returned" /\ lastErr' = "failed to create Telegram bot")
       /\ pc = "subscribe" =>
             \/ (pc' = "subscribed" /\ subs' = subs + 1)
             \/ (pc' = "returned" /\ lastErr' = "failed to subscribe to logs")
       /\ pc' \in Connecting => (attempts' = <<>> /\ received' = 0 /\ subs' = 0)
       /\ (pc \in InMonitor /\ (attempts' # attempts \/ received' # received)) =>
             (pc \in Subscribed /\ conns = 1 /\ subs = 1)
       /\ pc \in Subscribed => pc' \in Subscribed \cup {"returned"}
       /\ pc = "returned" => pc' = "supervise"]_vars

\* the bot could not be created: the run returned that error with the
\* connection closed, no subscription opened and nothing received or sent
C11_Witness ==
    /\ pc = "returned"
    /\ lastErr = "failed to create Telegram bot"
    /\ conns = 0
    /\ subs = 0
    /\ received = 0
    /\ attempts = <<>>


\* C12: handling an entry with no topic or with another first topic calls no
\* decode, sends nothing and stays subscribed; handling an entry whose first
\* topic is the AllocateStablecoins topic makes exactly one send for that
\* entry, the standard notice when the decode succeeded and the undecoded
\* notice when it failed.
C12_TopicFilter ==
    [][pc = "handling" =>
         LET vLog == Head(inflight).log IN
         IF vLog.Topics = <<>> \/ vLog.Topics[1] # allocateHash
         THEN /\ unpacked' = NoUnpack
              /\ attempts' = attempts
              /\ lastMsg' = lastMsg
              /\ logged' = ""
              /\ pc' = "subscribed"
              /\ returns' = returns
         ELSE /\ unpacked' # NoUnpack
              /\ Len(attempts') = Len(attempts) + 1
              /\ attempts'[Len(attempts')].entry = Head(inflight).idx
              /\ attempts'[Len(attempts')].kind =
                    (IF unpacked' = UnpackError THEN "unparsed" ELSE "standard")
              /\ lastMsg'.Text.kind = attempts'[Len(attempts')].kind
              /\ pc' = "subscribed"]_vars

\* an entry with another first topic was handled without a send, then an
\* AllocateStablecoins entry was handled with one standard notice
C12_Witness ==
    /\ pc = "subscribed"
    /\ received = 2
    /\ inflight = <<>>
    /\ Len(attempts) = 1
    /\ attempts[1].entry = 2
    /\ attempts[1].kind = "standard"
    /\ unpacked # NoUnpack
    /\ unpacked # UnpackError


FallbackURL == "https://yieldbasis.com"

KnownLabels == {"WBTC", "TBTC", "CBBTC"}

\* the label of the drawn elements: the element in lower case is a key of
\* the label table only when it is written with the prefix
LabelOfElement(e) ==
    CASE e.text = Pfx \o WBTCHex -> "WBTC"
      [] e.text = <<" ">> \o Pfx \o TBTCHex \o <<" ">> -> "TBTC"
      [] OTHER -> "UNKNOWN"

\* C13 as stated: every pool with a known label has the generic fallback URL.
C13_KnownLabelFallbackURL ==
    pc = "supervise" =>
        \A i \in 1..Len(config.Pools) :
            config.Pools[i].TokenName \in KnownLabels => config.Pools[i].YBURL = FallbackURL

\* C13, amended: the two tables share the TBTC and CBBTC pool addresses and
\* differ in the third key, so a pool labelled WBTC has the generic fallback
\* URL, a pool labelled TBTC or CBBTC has its own market URL, and an address
\* that is not a key of the label table is labelled UNKNOWN.
C13_TablesShareTwoKeys ==
    pc = "supervise" =>
        /\ \A i \in 1..Len(config.Pools) :
              LET p == config.Pools[i] IN
              /\ p.TokenName \in KnownLabels \cup {"UNKNOWN"}
              /\ p.TokenName = "WBTC" => p.YBURL = FallbackURL
              /\ p.TokenName = "TBTC" =>
                    p.YBURL = "https://yieldbasis.com/market/0x2B513eBe7070Cff91cf699a0BFe5075020C732FF"
              /\ p.TokenName = "CBBTC" =>
                    p.YBURL = "https://yieldbasis.com/market/0xD6a1147666f6E4d7161caf436d9923D44d901112"
              /\ env.POOL_ADDRESSES # <<>> => p.TokenName = LabelOfElement(addrList[i])
        /\ env.POOL_ADDRESSES = <<>> =>
              [i \in 1..Len(config.Pools) |-> config.Pools[i].TokenName]
                 = <<"WBTC", "TBTC", "CBBTC">>

\* the built-in pools were loaded: WBTC with the fallback URL, TBTC with its
\* market URL
C13_Witness ==
    /\ pc = "supervise"
    /\ env.POOL_ADDRESSES = <<>>
    /\ config.Pools[1].TokenName = "WBTC"
    /\ config.Pools[1].YBURL = FallbackURL
    /\ config.Pools[2].TokenName = "TBTC"
    /\ config.Pools[2].YBURL # FallbackURL

====
